---- MODULE Spec2Model ----
(***************************************************************************)
(* A model of the finance simulator's simulation engine:                    *)
(*   src/src/simulation/components.py  seasonality, transport statistics,   *)
(*                                     the two expense components           *)
(*   src/src/model.py                  ExpenseModel (registry, shared rng)  *)
(*   src/main.py                       the run command                      *)
(*                                                                          *)
(* Numbers.  The program computes in floating point; the model computes in  *)
(* exact integers.  Money in a configuration is a whole number of rupees,   *)
(* money in a table is a whole number of 1/Paise rupee, the two fractional  *)
(* transport fields are whole numbers of 1/ProbDen, and a seasonality       *)
(* multiplier is a whole number of tenths (1.3 is 13).                      *)
(*                                                                          *)
(* The generator.  numpy's bit generator is a deterministic stream fixed by *)
(* its seed.  A generator state is [tape, pos]: the tape is the stream      *)
(* (read cyclically), pos the number of variates consumed so far.  A raw    *)
(* variate is a quantile level in Quantiles; each distribution maps it to   *)
(* its own value.                                                           *)
(***************************************************************************)
EXTENDS Integers, Sequences, FiniteSets, TLC

\* ---------------------------------------------------------------- bounds
MaxTrials == 2      \* mc_trials ranges over 1..MaxTrials
MaxDays   == 3      \* bike / hitch / cricket days per month range over 0..MaxDays
Period    == 3      \* length of a generator tape
MaxRegs   == 3      \* register calls per constructed ExpenseModel
MaxRuns   == 2      \* run_simulation calls per constructed ExpenseModel

\* ------------------------------------------------- number representation
Paise   == 100      \* table cells are in 1/Paise rupee
ProbDen == 4        \* hitch_two_way_frac, rare_hitch_rapido_prob in 1/ProbDen
NaN     == -1000000 \* the float NaN (compares below zero, equal to nothing valid)

Quantiles == {0, 1, 2}    \* raw variates: low, middle, high

Abs(x) == IF x < 0 THEN -x ELSE x

RECURSIVE SqrtSearch(_, _, _)
SqrtSearch(x, lo, hi) ==
  IF lo >= hi THEN lo
  ELSE LET mid == (lo + hi + 1) \div 2
       IN  IF mid * mid <= x THEN SqrtSearch(x, mid, hi)
                             ELSE SqrtSearch(x, lo, mid - 1)

\* np.sqrt: NaN below zero, else the root (rounded down)
Sqrt(x) == IF x < 0 THEN NaN ELSE SqrtSearch(x, 0, IF x < 40000 THEN 200 ELSE 46340)

RECURSIVE SumSeq(_)
SumSeq(s) == IF s = <<>> THEN 0 ELSE Head(s) + SumSeq(Tail(s))

\* ------------------------------------------------------------ seasonality
\* get_seasonality_multipliers, as a function of what datetime.now().month
\* returned; multipliers in tenths.
MutSeasonalityMay(current_month) ==
  LET multipliers == [social |-> 10, household |-> 10, food |-> 10]
  IN  IF current_month \in {10, 11}
        THEN [multipliers EXCEPT !.social = 13, !.household = 11]
        ELSE IF current_month = 5
               THEN [multipliers EXCEPT !.food = 11]
               ELSE multipliers

get_seasonality_multipliers(current_month) ==
  LET multipliers == [social |-> 10, household |-> 10, food |-> 10]
      festival    == IF current_month \in {10, 11}
                       THEN [multipliers EXCEPT !.social = 13, !.household = 11]
                       ELSE multipliers
  IN  IF current_month = 5 THEN festival ELSE festival

\* -------------------------------------------------------------- transport
\* The five commute-choice probabilities, as numerators over ProbDenom(config):
\* bike, hitch two-way, hitch one-way non-combo, rare rapido, metro.
ProbDenom(config) == config.time.days_in_month * ProbDen

MutCommuteProbsRareApart(config) ==
  LET t        == config.transport
      D        == config.time.days_in_month
      p_bike   == t.bike_days_per_month * ProbDen
      p_any    == t.hitch_days_per_month * ProbDen
      p_two    == t.hitch_days_per_month * t.hitch_two_way_frac
      p_rare   == t.rare_hitch_rapido_prob * D
      p_one    == p_any - p_two
      p_metro  == ProbDenom(config) - SumSeq(<<p_bike, p_two, p_one, p_rare>>)
  IN  <<p_bike, p_two, p_one, p_rare, p_metro>>

CommuteProbs(config) ==
  LET t        == config.transport
      D        == config.time.days_in_month
      p_bike   == t.bike_days_per_month * ProbDen
      p_any    == t.hitch_days_per_month * ProbDen
      p_two    == t.hitch_days_per_month * t.hitch_two_way_frac
      p_rare   == t.rare_hitch_rapido_prob * D
      p_one    == p_any - p_two - p_rare
      p_metro  == ProbDenom(config) - SumSeq(<<p_bike, p_two, p_one, p_rare>>)
  IN  <<p_bike, p_two, p_one, p_rare, p_metro>>

\* The five per-choice daily costs, as numerators over CostDenom(config).
CostDenom(config) == config.transport.bike_kmpl * config.time.days_in_month

DailyCosts(config) ==
  LET t        == config.transport
      W        == config.time.workdays_per_month
      km_gym   == t.gym_oneway_km * 2
      km       == <<t.office_oneway_km * 2 + km_gym, km_gym, km_gym, km_gym, km_gym>>
      fare     == <<0, 0, t.metro_one_way_rs, t.rare_rapido_rs, t.metro_one_way_rs * 2>>
  IN  [i \in 1..5 |->
         (km[i] * t.petrol_price_rs_per_l + fare[i] * t.bike_kmpl) * W]

\* expected_mean, as a numerator over ProbDenom * CostDenom
TransportMeanNum(config) ==
  LET p == CommuteProbs(config)
      c == DailyCosts(config)
  IN  SumSeq([i \in 1..5 |-> p[i] * c[i]])

\* expected_variance, as a numerator over ProbDenom^3 * CostDenom^2
TransportVarNum(config) ==
  LET p == CommuteProbs(config)
      c == DailyCosts(config)
      m == TransportMeanNum(config)
      q == ProbDenom(config)
  IN  SumSeq([i \in 1..5 |-> p[i] * (c[i] * q - m) * (c[i] * q - m)])

\* _calculate_analytical_transport_stats: (expected_mean, expected_std) in paise
calculate_analytical_transport_stats(config) ==
  LET q    == ProbDenom(config)
      unit == q * CostDenom(config)
      v    == TransportVarNum(config)
      root == IF v < 0 THEN NaN ELSE Sqrt(v \div q)
  IN  [mean |-> (TransportMeanNum(config) * Paise) \div unit,
       std  |-> IF root = NaN THEN NaN ELSE (root * Paise) \div unit]

\* -------------------------------------------------------------- generator
NQuantiles == Cardinality(Quantiles)

\* the k-th variate (k = 0, 1, ...) the generator will produce next
Variate(rng, k) == rng.tape[((rng.pos + k) % Period) + 1]

\* the generator after producing k variates
Advance(rng, k) == [rng EXCEPT !.pos = @ + k]

\* a standard normal variate: two standard deviations below, the mean, two above
StdNormal(q) == 2 * (q - 1)

\* np.random.default_rng(seed): the stream is a fixed function of the seed
SeedTape(seed) == [i \in 1..Period |-> (seed + i * (seed + 1)) % NQuantiles]

default_rng(seed) == [tape |-> SeedTape(seed), pos |-> 0]

\* ------------------------------------------------------------------ tables
\* A DataFrame on a RangeIndex: column names, the number of rows, and the
\* cells column by column.
EmptyTable == [columns |-> <<>>, index |-> 0, values |-> <<>>]

Pad(col, n) == [r \in 1..n |-> IF r <= Len(col) THEN col[r] ELSE NaN]

Max(a, b) == IF a >= b THEN a ELSE b

\* pd.concat([a, b], axis=1): an outer join on the index; cells a table has
\* no row for are NaN.
ConcatColumns(a, b) ==
  LET n == Max(a.index, b.index)
  IN  [columns |-> a.columns \o b.columns,
       index   |-> n,
       values  |-> [c \in 1..Len(a.values) |-> Pad(a.values[c], n)]
                   \o [c \in 1..Len(b.values) |-> Pad(b.values[c], n)]]

RECURSIVE Concat(_)
Concat(dfs) ==
  IF Len(dfs) = 1 THEN Head(dfs)
  ELSE ConcatColumns(Head(dfs), Concat(Tail(dfs)))

Cells(table) == {table.values[c][r] : c \in 1..Len(table.values), r \in 1..table.index}

\* ----------------------------------------------- variable expense sampler
Sign(x) == IF x < 0 THEN -1 ELSE IF x > 0 THEN 1 ELSE 0

\* rng.multivariate_normal(means, cov, size=n): n rows of 3 standard normals
\* are drawn first, then cov is factored (a NaN in cov makes the
\* factorisation fail), then each row is mapped through the factor.  The
\* factor is modelled for the covariances the inputs produce: a diagonal
\* one, and a rank-one one (every correlation 1).
multivariate_normal(rng, means, cov, n) ==
  LET x        == [i \in 1..n |-> [j \in 1..3 |-> StdNormal(Variate(rng, 3 * (i - 1) + (j - 1)))]]
      after    == Advance(rng, 3 * n)
      hasNaN   == \E i \in 1..3 : \E j \in 1..3 : cov[i][j] = NaN
      diagonal == \A i \in 1..3 : \A j \in 1..3 : i # j => cov[i][j] = 0
      lead     == CHOOSE k \in 1..3 : cov[k][k] > 0 /\ \A l \in 1..(k - 1) : cov[l][l] = 0
      dev(i, j) == IF diagonal THEN Sqrt(cov[j][j]) * x[i][j]
                   ELSE Sign(cov[lead][j]) * Sqrt(cov[j][j]) * x[i][lead]
  IN  IF hasNaN THEN [status |-> "error", samples |-> <<>>, rng |-> after]
      ELSE [status  |-> "ok",
            samples |-> [i \in 1..n |-> [j \in 1..3 |-> means[j] + dev(i, j)]],
            rng     |-> after]

MutClipNothing(v) == v

\* samples[samples < 0] = 0
Clip(v) == IF v < 0 THEN 0 ELSE v

simulate_daily_variable_expenses(config, rng, current_month) ==
  LET n_trials    == config.simulation.mc_trials
      var_exp     == config.variable_expenses
      transport   == calculate_analytical_transport_stats(config)
      means       == <<transport.mean, var_exp.means.food * Paise, var_exp.means.social * Paise>>
      stds        == <<transport.std, var_exp.stds.food * Paise, var_exp.stds.social * Paise>>
      corr_matrix == var_exp.correlation_matrix
      cov_matrix  == [i \in 1..3 |-> [j \in 1..3 |->
                        IF stds[i] = NaN \/ stds[j] = NaN THEN NaN
                        ELSE stds[i] * stds[j] * corr_matrix[i][j]]]
      drawn       == multivariate_normal(rng, means, cov_matrix, n_trials)
      seasonality == get_seasonality_multipliers(current_month)
      factor      == <<10, seasonality.food, seasonality.social>>
  IN  IF drawn.status = "error"
        THEN [status |-> "error", table |-> EmptyTable, rng |-> drawn.rng]
        ELSE [status |-> "ok",
              table  |-> [columns |-> <<"transport", "food", "social">>,
                          index   |-> n_trials,
                          values  |-> [c \in 1..3 |-> [r \in 1..n_trials |->
                                         (Clip(drawn.samples[r][c]) * factor[c]) \div 10]]],
              rng    |-> drawn.rng]

\* --------------------------------------------- periodic expense aggregator
\* np.exp(h / 2) in thousandths, by repeated multiplication (it underflows
\* to 0 far below zero, as the float does)
RECURSIVE ExpMilli(_)
ExpMilli(h) ==
  IF h = 0 THEN 1000
  ELSE IF h > 0 THEN (ExpMilli(h - 1) * 1649) \div 1000
       ELSE (ExpMilli(h + 1) * 607) \div 1000

\* lognorm.rvs(s=sigma, scale=np.exp(mu), size=n, random_state=rng) with
\* mu = np.log(mean) - sigma**2 / 2, in paise.  np.log(0) is -inf and the
\* scale 0; np.log of a negative mean is NaN.  scipy refuses a shape
\* parameter that is not > 0 and a scale that is not >= 0 (ValueError),
\* returns zeros for a scale of 0 without drawing, and otherwise draws n
\* normal variates.
lognorm_rvs(rng, mean, sigma, n) ==
  IF sigma <= 0 \/ mean < 0
    THEN [status |-> "error", values |-> <<>>, rng |-> rng]
    ELSE IF mean = 0
      THEN [status |-> "ok", values |-> [i \in 1..n |-> 0], rng |-> rng]
      ELSE [status |-> "ok",
            values |-> [i \in 1..n |->
                          (mean * Paise
                             * ExpMilli(2 * sigma * StdNormal(Variate(rng, i - 1)) - sigma * sigma))
                          \div 1000],
            rng    |-> Advance(rng, n)]

\* rng.random(n) < p, with p = days / days_in_month
IsCricketDay(q, days, days_in_month) == q * days_in_month < days * NQuantiles

\* rng.uniform(low, high): low + (high - low) * u with u in [0, 1), in paise
Uniform(q, low, high) == low * Paise + ((high - low) * Paise * q) \div NQuantiles

MutHobbiesAlways(is_cricket_day, cricket_sample) == cricket_sample

\* np.where(is_cricket_day, cricket_samples, 0), one trial
HobbiesCell(is_cricket_day, cricket_sample) ==
  IF is_cricket_day THEN cricket_sample ELSE 0

PeriodicColumns ==
  <<"memberships", "subscriptions", "household", "family_support", "medical",
    "insurance_and_loans", "professional_and_financial", "miscellaneous", "hobbies">>

\* the eight daily averages, in paise
DailyAverages(config) ==
  LET c             == config.periodic_expenses
      days_in_month == config.time.days_in_month
      P(x)          == x * Paise
      subscriptions_monthly ==
          P(c.subscriptions.internet_monthly)
        + (P(c.subscriptions.mobile_90_days) \div 3)
        + P(c.subscriptions.google_one_monthly)
        + P(c.subscriptions.spotify_monthly)
        + P(c.subscriptions.news_monthly)
        + P(c.subscriptions.other_apps_monthly)
        + (P(c.subscriptions.cloud_backup_yearly) \div 12)
        + (P(c.subscriptions.antivirus_yearly) \div 12)
      household_monthly ==
          P(c.household.rent_contribution_monthly)
        + P(c.household.society_maintenance_monthly)
        + P(c.household.groceries_monthly)
        + P(c.household.utilities_monthly)
        + P(c.household.emergency_repair_fund_monthly)
        + P(c.household.appliance_replacement_fund_monthly)
        + P(c.household.wfh_equipment_fund_monthly)
        + (P(c.household.seasonal_clothing_yearly) \div 12)
      family_support_monthly ==
          P(c.family_support.child_elder_care_monthly)
        + P(c.family_support.caregiver_wages_monthly)
        + P(c.family_support.school_tuition_monthly)
        + P(c.family_support.education_fund_monthly)
      medical_monthly ==
          P(c.medical.consumables_monthly)
        + P(c.medical.long_term_meds_monthly)
        + (P(c.medical.specialist_consultations_yearly) \div 12)
        + (P(c.medical.dental_procedures_yearly) \div 12)
        + (P(c.medical.optical_costs_yearly) \div 12)
        + (P(c.medical.emergency_buffer_yearly) \div 12)
        + (P(c.medical.health_checkup_yearly) \div 12)
      insurance_loans_monthly ==
          P(c.insurance_and_loans.loan_emi_monthly)
        + P(c.insurance_and_loans.credit_card_payment_monthly)
        + (P(c.insurance_and_loans.life_insurance_yearly) \div 12)
        + (P(c.insurance_and_loans.hospitalization_copay_yearly) \div 12)
      professional_financial_monthly ==
          (P(c.professional_and_financial.income_tax_provision_yearly) \div 12)
        + (P(c.professional_and_financial.bank_charges_yearly) \div 12)
        + (P(c.professional_and_financial.investment_platform_fees_yearly) \div 12)
        + (P(c.professional_and_financial.advisory_fees_yearly) \div 12)
        + (P(c.professional_and_financial.legal_services_yearly) \div 12)
        + (P(c.professional_and_financial.professional_license_yearly) \div 12)
        + (P(c.professional_and_financial.tax_filing_assistance_yearly) \div 12)
      misc_monthly ==
          P(c.miscellaneous.donations_monthly)
        + P(c.miscellaneous.pet_care_monthly)
        + P(c.miscellaneous.inflation_buffer_monthly)
        + (P(c.miscellaneous.gifts_and_occasions_yearly) \div 12)
  IN  <<(P(c.memberships.gym_yearly) * 100) \div 36525,
        subscriptions_monthly \div days_in_month,
        household_monthly \div days_in_month,
        family_support_monthly \div days_in_month,
        medical_monthly \div days_in_month,
        insurance_loans_monthly \div days_in_month,
        professional_financial_monthly \div days_in_month,
        misc_monthly \div days_in_month>>

MutPeriodicNoHobbies(config, rng) ==
  [status |-> "ok",
   table  |-> [columns |-> SubSeq(PeriodicColumns, 1, 8),
               index   |-> config.simulation.mc_trials,
               values  |-> [k \in 1..8 |->
                              [r \in 1..config.simulation.mc_trials |-> DailyAverages(config)[k]]]],
   rng    |-> rng]

simulate_periodic_expenses(config, rng) ==
  LET n_trials       == config.simulation.mc_trials
      c              == config.periodic_expenses
      days_in_month  == config.time.days_in_month
      daily_averages == DailyAverages(config)
      c_prof         == c.professional_and_financial
      maintenance    == lognorm_rvs(rng, c_prof.bike_maintenance_mean_monthly,
                                    c_prof.bike_maintenance_sigma, n_trials)
      rng1           == maintenance.rng
      is_cricket_day == [r \in 1..n_trials |->
                           IsCricketDay(Variate(rng1, r - 1),
                                        c.hobbies.cricket_days_per_month, days_in_month)]
      rng2           == Advance(rng1, n_trials)
      cricket_samples == [r \in 1..n_trials |->
                            Uniform(Variate(rng2, r - 1),
                                    c.hobbies.cricket_cost_min, c.hobbies.cricket_cost_max)]
      rng3           == Advance(rng2, n_trials)
      column(k)      == [r \in 1..n_trials |->
                           IF k = 7 THEN daily_averages[7] + maintenance.values[r] \div days_in_month
                           ELSE IF k = 9 THEN HobbiesCell(is_cricket_day[r], cricket_samples[r])
                           ELSE daily_averages[k]]
  IN  IF maintenance.status = "error"
        THEN [status |-> "error", table |-> EmptyTable, rng |-> maintenance.rng]
        ELSE [status |-> "ok",
              table  |-> [columns |-> PeriodicColumns,
                          index   |-> n_trials,
                          values  |-> [k \in 1..9 |-> column(k)]],
              rng    |-> rng3]

\* ------------------------------------------------------------ ExpenseModel
\* The callables a client registers: the two components of components.py and
\* a third with the __name__ of the second, which returns a one-row summary
\* (the single fixed_expenses column of an earlier version) and draws nothing.
Functions == {"simulate_daily_variable_expenses", "simulate_periodic_expenses",
              "legacy_periodic_expenses"}

\* func.__name__
NameOf(func) ==
  IF func = "legacy_periodic_expenses" THEN "simulate_periodic_expenses" ELSE func

legacy_periodic_expenses(config, rng) ==
  [status |-> "ok",
   table  |-> [columns |-> <<"fixed_expenses">>, index |-> 1, values |-> << <<0>> >>],
   rng    |-> rng]

\* func(self.config, self.rng)
Invoke(func, config, rng, current_month) ==
  CASE func = "simulate_daily_variable_expenses" ->
         simulate_daily_variable_expenses(config, rng, current_month)
    [] func = "simulate_periodic_expenses" ->
         simulate_periodic_expenses(config, rng)
    [] func = "legacy_periodic_expenses" ->
         legacy_periodic_expenses(config, rng)

\* self.expense_functions is a dict: a sequence of [name, func] in insertion
\* order, at most one entry per name.
Names(expense_functions) == [i \in 1..Len(expense_functions) |-> expense_functions[i].name]

Values(expense_functions) == [i \in 1..Len(expense_functions) |-> expense_functions[i].func]

MutRegisterMoveToEnd(expense_functions, func) ==
  Append(SelectSeq(expense_functions, LAMBDA e : e.name # NameOf(func)),
         [name |-> NameOf(func), func |-> func])

\* self.expense_functions[component_name] = func
register(expense_functions, func) ==
  LET component_name == NameOf(func)
  IN  IF \E i \in 1..Len(expense_functions) : expense_functions[i].name = component_name
        THEN [i \in 1..Len(expense_functions) |->
                IF expense_functions[i].name = component_name
                  THEN [expense_functions[i] EXCEPT !.func = func]
                  ELSE expense_functions[i]]
        ELSE Append(expense_functions, [name |-> component_name, func |-> func])

\* one component call of a run: the function, the generator it started from
\* and left, and the shape of the table it returned
Call(func, rng, out) ==
  [func |-> func, before |-> rng, after |-> out.rng,
   columns |-> out.table.columns, rows |-> out.table.index]

\* the calls so far followed by one more that returned
Extend(call, table, rest) ==
  [status |-> rest.status,
   dfs    |-> <<table>> \o rest.dfs,
   calls  |-> <<call>> \o rest.calls,
   rng    |-> rest.rng]

\* [func(self.config, self.rng) for func in self.expense_functions.values()]:
\* the components one after another on the one generator; a component that
\* raises ends the comprehension.
RECURSIVE InvokeAll(_, _, _, _)
MutContinueSameStart(funcs, config, rng, current_month, out) ==
  IF out.status = "error"
    THEN [status |-> "error", dfs |-> <<>>, calls |-> <<Call(Head(funcs), rng, out)>>,
          rng |-> out.rng]
    ELSE Extend(Call(Head(funcs), rng, out), out.table,
                InvokeAll(Tail(funcs), config, rng, current_month))

Continue(funcs, config, rng, current_month, out) ==
  IF out.status = "error"
    THEN [status |-> "error", dfs |-> <<>>, calls |-> <<Call(Head(funcs), rng, out)>>,
          rng |-> out.rng]
    ELSE Extend(Call(Head(funcs), rng, out), out.table,
                InvokeAll(Tail(funcs), config, out.rng, current_month))

InvokeAll(funcs, config, rng, current_month) ==
  IF funcs = <<>> THEN [status |-> "ok", dfs |-> <<>>, calls |-> <<>>, rng |-> rng]
  ELSE Continue(funcs, config, rng, current_month,
                Invoke(Head(funcs), config, rng, current_month))

\* pd.concat(all_results_dfs, axis=1), or the exception a component raised
Returned(all) ==
  IF all.status = "error"
    THEN [status |-> "error", table |-> EmptyTable, calls |-> all.calls, rng |-> all.rng]
    ELSE [status |-> "ok", table |-> Concat(all.dfs), calls |-> all.calls, rng |-> all.rng]

MutRunEmptyReturnsTable(expense_functions, config, rng, current_month) ==
  [status |-> "ok", table |-> EmptyTable, calls |-> <<>>, rng |-> Advance(rng, 1)]

\* ExpenseModel.run_simulation: what it returns or raises, the component
\* calls it made, and the generator it leaves.
run_simulation(expense_functions, config, rng, current_month) ==
  IF expense_functions = <<>>
    THEN [status |-> "ValueError", table |-> EmptyTable, calls |-> <<>>, rng |-> rng]
    ELSE Returned(InvokeAll(Values(expense_functions), config, rng, current_month))

\* ---------------------------------------------------------- configurations
\* Config, as the schema of config_loader.py lays it out.  The schema bounds
\* only mc_trials, days_in_month and workdays_per_month (all > 0).
DefaultTransport ==
  [bike_days_per_month |-> 1, hitch_days_per_month |-> 1, hitch_two_way_frac |-> 2,
   rare_hitch_rapido_prob |-> 0, office_oneway_km |-> 1, gym_oneway_km |-> 1,
   bike_kmpl |-> 1, petrol_price_rs_per_l |-> 1, metro_one_way_rs |-> 2,
   rare_rapido_rs |-> 3]

Identity == << <<1, 0, 0>>, <<0, 1, 0>>, <<0, 0, 1>> >>

AllOnes == << <<1, 1, 1>>, <<1, 1, 1>>, <<1, 1, 1>> >>

DefaultVariable ==
  [means |-> [food |-> 2, social |-> 1], stds |-> [food |-> 1, social |-> 1],
   correlation_matrix |-> Identity]

\* every monthly field is base, the 90-day field 3 * base, every yearly field
\* 24 * base (base 0 gives the schema's defaults)
PeriodicExpenses(base, mean, sigma, days, low, high) ==
  [memberships   |-> [gym_yearly |-> 24 * base],
   subscriptions |-> [internet_monthly |-> base, mobile_90_days |-> 3 * base,
                      google_one_monthly |-> base, spotify_monthly |-> base,
                      cloud_backup_yearly |-> 24 * base, antivirus_yearly |-> 24 * base,
                      news_monthly |-> base, other_apps_monthly |-> base],
   household     |-> [rent_contribution_monthly |-> base, society_maintenance_monthly |-> base,
                      groceries_monthly |-> base, utilities_monthly |-> base,
                      emergency_repair_fund_monthly |-> base,
                      appliance_replacement_fund_monthly |-> base,
                      wfh_equipment_fund_monthly |-> base,
                      seasonal_clothing_yearly |-> 24 * base],
   family_support |-> [child_elder_care_monthly |-> base, caregiver_wages_monthly |-> base,
                       school_tuition_monthly |-> base, education_fund_monthly |-> base],
   medical       |-> [consumables_monthly |-> base, specialist_consultations_yearly |-> 24 * base,
                      dental_procedures_yearly |-> 24 * base, optical_costs_yearly |-> 24 * base,
                      long_term_meds_monthly |-> base, emergency_buffer_yearly |-> 24 * base,
                      health_checkup_yearly |-> 24 * base],
   insurance_and_loans |-> [life_insurance_yearly |-> 24 * base,
                            hospitalization_copay_yearly |-> 24 * base,
                            loan_emi_monthly |-> base, credit_card_payment_monthly |-> base],
   professional_and_financial |->
     [income_tax_provision_yearly |-> 24 * base, bank_charges_yearly |-> 24 * base,
      investment_platform_fees_yearly |-> 24 * base, advisory_fees_yearly |-> 24 * base,
      legal_services_yearly |-> 24 * base, professional_license_yearly |-> 24 * base,
      tax_filing_assistance_yearly |-> 24 * base,
      bike_maintenance_mean_monthly |-> mean, bike_maintenance_sigma |-> sigma],
   miscellaneous |-> [gifts_and_occasions_yearly |-> 24 * base, donations_monthly |-> base,
                      pet_care_monthly |-> base, inflation_buffer_monthly |-> base],
   hobbies       |-> [cricket_days_per_month |-> days, cricket_cost_min |-> low,
                      cricket_cost_max |-> high]]

DefaultPeriodic == PeriodicExpenses(6, 5, 1, 2, 3, 5)

Config(seed, trials, transport, variable, periodic) ==
  [simulation        |-> [mc_trials |-> trials, random_seed |-> seed],
   time              |-> [days_in_month |-> 4, workdays_per_month |-> 2],
   transport         |-> transport,
   variable_expenses |-> variable,
   periodic_expenses |-> periodic]

Seeds == {0, 1}

Trials == 1..MaxTrials

\* the transport fields vary (the fares may be negative: the schema allows it)
TransportFamily ==
  {Config(0, 1, [DefaultTransport EXCEPT !.bike_days_per_month = b,
                                         !.hitch_days_per_month = h,
                                         !.hitch_two_way_frac = f,
                                         !.rare_hitch_rapido_prob = r,
                                         !.gym_oneway_km = g,
                                         !.metro_one_way_rs = m,
                                         !.rare_rapido_rs = x],
          DefaultVariable, DefaultPeriodic) :
     b \in 0..MaxDays, h \in 0..MaxDays, f \in {0, 2, 4}, r \in {0, 1}, g \in {0, 1},
     m \in {-1, 0, 2}, x \in {0, 3}}

\* the statistics of food and social, the correlations and the trial count vary
VariableFamily ==
  {Config(0, n, DefaultTransport,
          [means |-> [food |-> mf, social |-> 1], stds |-> [food |-> sf, social |-> 1],
           correlation_matrix |-> corr], DefaultPeriodic) :
     n \in Trials, mf \in {0, 2}, sf \in {0, 1, 2}, corr \in {Identity, AllOnes}}

\* the periodic fields and the trial count vary; a profile is the base, the
\* mean and the sigma of the bike maintenance (a sigma of 0 and a negative
\* mean are outside the lognormal's domain)
PeriodicFamily ==
  {Config(0, n, DefaultTransport, DefaultVariable,
          PeriodicExpenses(profile[1], profile[2], profile[3], days, range[1], range[2])) :
     n \in Trials,
     profile \in {<<0, 0, 1>>, <<0, 5, 1>>, <<6, 5, 1>>, <<6, 5, 2>>, <<6, 5, 0>>, <<6, -1, 1>>},
     days \in 0..MaxDays, range \in {<<3, 5>>, <<0, 0>>}}

\* what the orchestrator is constructed from
OrchestratorConfigs ==
  {Config(seed, n, DefaultTransport, DefaultVariable, DefaultPeriodic) :
     seed \in Seeds, n \in Trials}

\* ------------------------------------------------------------------ state
VARIABLES
  config,             \* the Config in use
  month,              \* what datetime.now().month returns
  rng,                \* the generator: ExpenseModel.rng, or the one a caller passes in
  ret,                \* the last direct call of a component function and its result
  expense_functions,  \* ExpenseModel.expense_functions
  registered,         \* the functions passed to register so far, in call order
  runs,               \* number of run_simulation calls so far
  result,             \* the last run_simulation call and its outcome
  replica,            \* a second ExpenseModel, constructed from the same config, on
                      \* which the client repeats every register call; run at most once
  cli                 \* the process of main.py's run command: the file at config_path,
                      \* its position, what it printed and wrote, its exit status

vars == <<config, month, rng, ret, expense_functions, registered, runs, result, replica, cli>>

NoStats == [mean |-> 0, std |-> 0]

NoMultipliers == [social |-> 0, household |-> 0, food |-> 0]

NoGenerator == [tape |-> [i \in 1..Period |-> 0], pos |-> 0]

NoRet == [op |-> "none", status |-> "none", stats |-> NoStats,
          multipliers |-> NoMultipliers, table |-> EmptyTable, before |-> NoGenerator]

NoResult == [status |-> "none", table |-> EmptyTable, calls |-> <<>>,
             registered |-> <<>>, functions |-> <<>>, before |-> NoGenerator,
             after |-> NoGenerator]

\* the settings of no file: the schema rejects a trial count of 0
NoConfig == Config(0, 0, DefaultTransport, DefaultVariable, DefaultPeriodic)

\* no run command in progress
NoProcess == [file |-> [is_file |-> FALSE, parses |-> FALSE, raw |-> NoConfig], pc |-> "none",
              raised |-> "none", console |-> <<>>, files |-> {}, exit_code |-> -1]

AllGenerators == [tape : [1..Period -> Quantiles], pos : {0}]

IdleModel ==
  /\ expense_functions = <<>>
  /\ registered = <<>>
  /\ runs = 0
  /\ result = NoResult
  /\ replica = [rng |-> default_rng(0), runs |-> 0, result |-> NoResult]
  /\ cli = NoProcess

\* --------------------------------------- the component functions, called
\* directly with a configuration and a generator (as tests/test_simulation.py
\* calls them); at most two calls that draw follow one another
InitComponents ==
  /\ \/ config \in TransportFamily /\ rng = default_rng(1) /\ month = 1
     \/ config \in VariableFamily /\ rng \in AllGenerators /\ month = 10
     \/ config \in PeriodicFamily /\ rng \in AllGenerators /\ month = 1
     \/ config \in OrchestratorConfigs /\ rng = default_rng(1) /\ month \in 1..12
  /\ ret = NoRet
  /\ IdleModel

UnchangedModel == UNCHANGED <<expense_functions, registered, runs, result, replica, cli>>

CallSeasonality ==
  /\ ret' = [NoRet EXCEPT !.op = "seasonality", !.status = "ok",
                          !.multipliers = get_seasonality_multipliers(month),
                          !.before = rng]
  /\ UNCHANGED <<config, month, rng>>
  /\ UnchangedModel

CallTransportStats ==
  /\ ret' = [NoRet EXCEPT !.op = "transport", !.status = "ok",
                          !.stats = calculate_analytical_transport_stats(config),
                          !.before = rng]
  /\ UNCHANGED <<config, month, rng>>
  /\ UnchangedModel

CallDaily ==
  /\ rng.pos <= 3 * config.simulation.mc_trials
  /\ LET out == simulate_daily_variable_expenses(config, rng, month)
     IN  /\ ret' = [NoRet EXCEPT !.op = "daily", !.status = out.status, !.table = out.table,
                                 !.before = rng]
         /\ rng' = out.rng
  /\ UNCHANGED <<config, month>>
  /\ UnchangedModel

CallPeriodic ==
  /\ rng.pos <= 3 * config.simulation.mc_trials
  /\ LET out == simulate_periodic_expenses(config, rng)
     IN  /\ ret' = [NoRet EXCEPT !.op = "periodic", !.status = out.status, !.table = out.table,
                                 !.before = rng]
         /\ rng' = out.rng
  /\ UNCHANGED <<config, month>>
  /\ UnchangedModel

NextComponents == CallSeasonality \/ CallTransportStats \/ CallDaily \/ CallPeriodic

SpecComponents == InitComponents /\ [][NextComponents]_vars

\* ------------------------------------------------------- the orchestrator
\* ExpenseModel.__init__ has run (twice: the model and its replica)
Init ==
  /\ config \in OrchestratorConfigs
  /\ month \in {9, 10}
  /\ rng = default_rng(config.simulation.random_seed)
  /\ ret = NoRet
  /\ expense_functions = <<>>
  /\ registered = <<>>
  /\ runs = 0
  /\ result = NoResult
  /\ replica = [rng |-> default_rng(config.simulation.random_seed), runs |-> 0,
                result |-> NoResult]
  /\ cli = NoProcess

\* a run_simulation call on a generator g: what was registered, the
\* registry's functions, the generator before and after, and the outcome
Outcome(r, g) ==
  [status |-> r.status, table |-> r.table, calls |-> r.calls,
   registered |-> registered, functions |-> Values(expense_functions),
   before |-> g, after |-> r.rng]

Register(func) ==
  /\ Len(registered) < MaxRegs
  /\ expense_functions' = register(expense_functions, func)
  /\ registered' = Append(registered, func)
  /\ UNCHANGED <<config, month, rng, ret, runs, result, replica, cli>>

Ran(r) ==
  /\ result' = Outcome(r, rng)
  /\ rng' = r.rng

RunSimulation ==
  /\ runs < MaxRuns
  /\ Ran(run_simulation(expense_functions, config, rng, month))
  /\ runs' = runs + 1
  /\ UNCHANGED <<config, month, ret, expense_functions, registered, replica, cli>>

ReplicaRan(r) ==
  replica' = [rng |-> r.rng, runs |-> 1, result |-> Outcome(r, replica.rng)]

RunReplica ==
  /\ replica.runs = 0
  /\ ReplicaRan(run_simulation(expense_functions, config, replica.rng, month))
  /\ UNCHANGED <<config, month, rng, ret, expense_functions, registered, runs, result, cli>>

\* the wall clock moves on to the next month
ClockTick ==
  /\ month = 9
  /\ month' = month + 1
  /\ UNCHANGED <<config, rng, ret, expense_functions, registered, runs, result, replica, cli>>

Next ==
  \/ \E func \in Functions : Register(func)
  \/ RunSimulation
  \/ RunReplica
  \/ ClockTick

Spec == Init /\ [][Next]_vars

\* ------------------------------------------------- the run command (main.py)
\* What config_path may name: no file, a file that is not YAML, or a YAML
\* file with raw settings.  The raw settings cover a trial count the schema
\* rejects (0), a transport block whose variance is negative and a lognormal
\* shape of 0, beside the defaults.

RawConfigs ==
  {Config(seed, n, transport, DefaultVariable, periodic) :
     seed \in Seeds, n \in 0..MaxTrials,
     transport \in {DefaultTransport,
                    [DefaultTransport EXCEPT !.bike_days_per_month = 0,
                                             !.hitch_days_per_month = 0,
                                             !.rare_hitch_rapido_prob = 1]},
     periodic \in {DefaultPeriodic, PeriodicExpenses(6, 5, 0, 2, 3, 5)}}

ConfigFiles ==
  {[is_file |-> FALSE, parses |-> FALSE, raw |-> NoConfig],
   [is_file |-> TRUE, parses |-> FALSE, raw |-> NoConfig]}
  \cup {[is_file |-> TRUE, parses |-> TRUE, raw |-> raw] : raw \in RawConfigs}

\* Config(**raw_config): the bounds the schema states (Field(..., gt=0))
Validates(raw) ==
  /\ raw.simulation.mc_trials > 0
  /\ raw.time.days_in_month > 0
  /\ raw.time.workdays_per_month > 0

\* load_config(path): the Config, or the exception raised
load_config(file) ==
  IF ~file.is_file THEN [status |-> "FileNotFoundError", config |-> NoConfig]
  ELSE IF ~file.parses THEN [status |-> "YAMLError", config |-> NoConfig]
  ELSE IF ~Validates(file.raw) THEN [status |-> "ValidationError", config |-> NoConfig]
  ELSE [status |-> "ok", config |-> file.raw]

\* create_report: the summary table on the console, then the two charts
create_report(process) ==
  [process EXCEPT !.console = process.console \o <<"expense_table", "reports_saved">>,
                  !.files = process.files \cup {"reports/expense_breakdown.png",
                                                "reports/daily_cost_distribution.png"}]

\* where the try block of run goes after a call: on, or to the except clause
MutAfterAlwaysOn(status, on) == on

After(status, on) == IF status = "ok" THEN on ELSE "except"

Raised(status) == IF status = "ok" THEN "none" ELSE status

InitMain ==
  /\ \E file \in ConfigFiles : cli = [NoProcess EXCEPT !.file = file, !.pc = "load"]
  /\ month \in {1, 10}
  /\ config = NoConfig
  /\ rng = NoGenerator
  /\ ret = NoRet
  /\ expense_functions = <<>>
  /\ registered = <<>>
  /\ runs = 0
  /\ result = NoResult
  /\ replica = [rng |-> default_rng(0), runs |-> 0, result |-> NoResult]

Loaded(r) ==
  /\ config' = r.config
  /\ cli' = [cli EXCEPT !.console = Append(cli.console, "loading"),
                        !.pc = After(r.status, "init"),
                        !.raised = Raised(r.status)]

\* config = load_config(config_path)
MainLoad ==
  /\ cli.pc = "load"
  /\ Loaded(load_config(cli.file))
  /\ UNCHANGED <<month, rng, ret, expense_functions, registered, runs, result, replica>>

\* model = ExpenseModel(config)
MainInit ==
  /\ cli.pc = "init"
  /\ rng' = default_rng(config.simulation.random_seed)
  /\ expense_functions' = <<>>
  /\ cli' = [cli EXCEPT !.console = Append(cli.console, "initializing"), !.pc = "register"]
  /\ UNCHANGED <<config, month, ret, registered, runs, result, replica>>

\* model.register(simulate_daily_variable_expenses)
\* model.register(simulate_periodic_expenses)
MainRegister ==
  /\ cli.pc = "register"
  /\ expense_functions' = register(register(expense_functions,
                                            "simulate_daily_variable_expenses"),
                                   "simulate_periodic_expenses")
  /\ registered' = <<"simulate_daily_variable_expenses", "simulate_periodic_expenses">>
  /\ cli' = [cli EXCEPT !.pc = "run"]
  /\ UNCHANGED <<config, month, rng, ret, runs, result, replica>>

MainRan(r) ==
  /\ Ran(r)
  /\ cli' = [cli EXCEPT !.console = Append(cli.console, "running"),
                        !.pc = After(r.status, "report"),
                        !.raised = Raised(r.status)]

\* results_df = model.run_simulation()
MainRun ==
  /\ cli.pc = "run"
  /\ MainRan(run_simulation(expense_functions, config, rng, month))
  /\ runs' = runs + 1
  /\ UNCHANGED <<config, month, ret, expense_functions, registered, replica>>

\* create_report(results_df, config, reports_dir), then the command returns
MainReport ==
  /\ cli.pc = "report"
  /\ cli' = [create_report([cli EXCEPT !.console = Append(cli.console, "complete")])
               EXCEPT !.pc = "exit", !.exit_code = 0]
  /\ UNCHANGED <<config, month, rng, ret, expense_functions, registered, runs, result, replica>>

\* except Exception as e: the error panel, then raise typer.Exit(code=1)
MainExcept ==
  /\ cli.pc = "except"
  /\ cli' = [cli EXCEPT !.console = Append(cli.console, "error_panel"),
                        !.pc = "exit", !.exit_code = 1]
  /\ UNCHANGED <<config, month, rng, ret, expense_functions, registered, runs, result, replica>>

NextMain == MainLoad \/ MainInit \/ MainRegister \/ MainRun \/ MainReport \/ MainExcept

SpecMain == InitMain /\ [][NextMain]_vars

\* ============================================================== properties

\* the functions in a sequence of register calls, each once, in the order
\* of their first registration
RECURSIVE FirstOccurrences(_)
FirstOccurrences(fs) ==
  IF fs = <<>> THEN <<>>
  ELSE LET init == FirstOccurrences(SubSeq(fs, 1, Len(fs) - 1))
           last == fs[Len(fs)]
       IN  IF \E i \in 1..Len(init) : init[i] = last THEN init ELSE Append(init, last)

RECURSIVE Flatten(_)
Flatten(ss) == IF ss = <<>> THEN <<>> ELSE Head(ss) \o Flatten(Tail(ss))

Invoked(r) == [i \in 1..Len(r.calls) |-> r.calls[i].func]

\* C1: a run_simulation that returns a table has invoked every function that
\* was registered exactly once, in the order they were registered, and the
\* table's columns are the components' columns concatenated in that order.
C1_EveryRegisteredOnceInOrder ==
  result.status = "ok" =>
    /\ Invoked(result) = FirstOccurrences(result.registered)
    /\ result.table.columns = Flatten([i \in 1..Len(result.calls) |-> result.calls[i].columns])

\* C2: run_simulation on an empty registry raises ValueError, invokes no
\* component and leaves the generator where it was.
C2_EmptyRegistryFails ==
  (result.status # "none" /\ result.functions = <<>>) =>
    /\ result.status = "ValueError"
    /\ result.calls = <<>>
    /\ result.after = result.before
    /\ result.table = EmptyTable

C2_Witness == result.status = "ValueError" /\ runs = MaxRuns /\ rng = result.before

\* C3: a run_simulation in which a component returned a table whose row count
\* is not mc_trials fails with an error.
C3_RowMismatchFails ==
  (result.status # "none"
     /\ \E i \in 1..Len(result.calls) : result.calls[i].rows # config.simulation.mc_trials)
  => result.status \in {"ValueError", "error"}

\* C4: the first runs of two freshly constructed models with the same seed,
\* configuration and registration order end alike and return the same table.
C4_Reproducible ==
  (runs = 1 /\ replica.runs = 1 /\ result.functions = replica.result.functions)
  => /\ result.status = replica.result.status
     /\ result.table = replica.result.table

\* a transport configuration the spec calls valid: every field and every
\* derived probability non-negative, the mileage positive
ValidTransport(c) ==
  /\ \A i \in 1..5 : CommuteProbs(c)[i] >= 0
  /\ \A f \in DOMAIN c.transport : c.transport[f] >= 0
  /\ c.transport.bike_kmpl > 0
  /\ c.variable_expenses.stds.food >= 0
  /\ c.variable_expenses.stds.social >= 0

\* a periodic configuration the spec calls valid: every field non-negative,
\* the lognormal's shape parameter positive, the cricket cost range in order
ValidPeriodic(c) ==
  LET p == c.periodic_expenses
  IN  /\ \A g \in DOMAIN p : \A f \in DOMAIN p[g] : p[g][f] >= 0
      /\ p.professional_and_financial.bike_maintenance_sigma > 0
      /\ p.hobbies.cricket_cost_min <= p.hobbies.cricket_cost_max

WellFormed(table, columns, n) ==
  /\ table.columns = columns
  /\ table.index = n
  /\ Len(table.values) = Len(columns)
  /\ \A k \in 1..Len(table.values) : Len(table.values[k]) = n

\* C5: with a negative derived metro probability the transport model returns
\* no statistics and the sampler fails before it draws from the generator.
C5_NegativeMetroRejected ==
  (ret.op \in {"transport", "daily"} /\ CommuteProbs(config)[5] < 0) =>
    /\ ret.status = "error"
    /\ rng = ret.before

\* C6: on a valid configuration simulate_daily_variable_expenses returns
\* mc_trials rows of the columns transport, food, social, every cell >= 0.
C6_DailyShapeAndSign ==
  (ret.op = "daily" /\ ValidTransport(config)) =>
    /\ ret.status = "ok"
    /\ WellFormed(ret.table, <<"transport", "food", "social">>, config.simulation.mc_trials)
    /\ \A v \in Cells(ret.table) : v >= 0

\* a draw below zero was clipped in a festival month, beside a positive cell
C6_Witness ==
  /\ ret.op = "daily" /\ ValidTransport(config) /\ month = 10
  /\ config.simulation.mc_trials = 2
  /\ config.variable_expenses.means.food > 0
  /\ ret.table.values[2][1] = 0
  /\ ret.table.values[3][2] > 0

\* C7: on a valid configuration with non-negative inputs
\* simulate_periodic_expenses returns mc_trials rows of the nine periodic
\* columns, every cell >= 0.
C7_PeriodicShapeAndSign ==
  (ret.op = "periodic" /\ ValidPeriodic(config)) =>
    /\ ret.status = "ok"
    /\ WellFormed(ret.table, PeriodicColumns, config.simulation.mc_trials)
    /\ \A v \in Cells(ret.table) : v >= 0

C7_Witness ==
  /\ ret.op = "periodic" /\ ValidPeriodic(config)
  /\ config.simulation.mc_trials = 2
  /\ config.periodic_expenses.professional_and_financial.bike_maintenance_mean_monthly > 0
  /\ ret.table.values[7][1] > ret.table.values[7][2]
  /\ ret.table.values[9][1] > 0
  /\ ret.table.values[1][1] > 0

\* the Bernoulli cricket event of trial r in a simulate_periodic_expenses
\* call that started from generator g: the lognormal draws come first (none
\* when the maintenance mean is 0), then one uniform variate per trial
CricketEvent(c, g, r) ==
  LET n     == c.simulation.mc_trials
      mean  == c.periodic_expenses.professional_and_financial.bike_maintenance_mean_monthly
      first == IF mean = 0 THEN 0 ELSE n
  IN  Variate(g, first + r - 1) * c.time.days_in_month
        < c.periodic_expenses.hobbies.cricket_days_per_month * NQuantiles

\* C8: in the hobbies column a trial whose cricket event did not occur is
\* exactly 0 and a trial whose event occurred lies within
\* [cricket_cost_min, cricket_cost_max].
C8_HobbiesZeroOrInRange ==
  (ret.op = "periodic" /\ ret.status = "ok" /\ ValidPeriodic(config)) =>
    \A r \in 1..config.simulation.mc_trials :
      LET h == config.periodic_expenses.hobbies
          v == ret.table.values[9][r]
      IN  /\ ~CricketEvent(config, ret.before, r) => v = 0
          /\ CricketEvent(config, ret.before, r) =>
               (h.cricket_cost_min * Paise <= v /\ v <= h.cricket_cost_max * Paise)
          /\ v # 0 => (h.cricket_cost_min * Paise <= v /\ v <= h.cricket_cost_max * Paise)

C8_Witness ==
  /\ ret.op = "periodic" /\ ret.status = "ok" /\ ValidPeriodic(config)
  /\ config.simulation.mc_trials = 2
  /\ CricketEvent(config, ret.before, 1) /\ ret.table.values[9][1] > 0
  /\ ~CricketEvent(config, ret.before, 2) /\ ret.table.values[9][2] = 0
  /\ config.periodic_expenses.hobbies.cricket_cost_min > 0

\* C9: when the five derived probabilities sum to 1 and the five daily costs
\* are >= 0, the returned mean and the returned std are >= 0 (the std is not
\* NaN).
C9_TransportStatsNonNegative ==
  (ret.op = "transport"
     /\ SumSeq(CommuteProbs(config)) = ProbDenom(config)
     /\ \A i \in 1..5 : DailyCosts(config)[i] >= 0)
  => /\ ret.stats.mean >= 0
     /\ ret.stats.std # NaN
     /\ ret.stats.std >= 0

ReportProduced == cli.files # {} \/ \E i \in 1..Len(cli.console) : cli.console[i] = "expense_table"

Printed(what) == \E i \in 1..Len(cli.console) : cli.console[i] = what

\* C11: an error raised while loading the configuration, registering or
\* running ends the run command with the error panel printed and exit status
\* 1 and without any report; a report is produced only after run_simulation
\* has returned a table.
C11_ErrorsExitNonZeroNoReport ==
  /\ cli.raised # "none" =>
       /\ ~ReportProduced
       /\ cli.pc \in {"except", "exit"}
       /\ cli.pc = "exit" => (cli.exit_code = 1 /\ Printed("error_panel"))
  /\ (ReportProduced \/ cli.pc = "report") => (runs = 1 /\ result.status = "ok")
  /\ cli.exit_code = 0 => (cli.raised = "none" /\ ReportProduced)

\* the second component raised inside run_simulation, after the first had
\* returned its table: the command has exited with status 1 and no report
C11_Witness ==
  /\ cli.pc = "exit" /\ cli.exit_code = 1 /\ cli.raised = "error"
  /\ Len(result.calls) = 2
  /\ Printed("error_panel") /\ ~ReportProduced

\* the component calls of a run follow one another on the one generator: the
\* first starts from the state the run found, each next one from the state
\* its predecessor left, and the run leaves the state the last one left
Threaded(r) ==
  /\ Len(r.calls) = 0 => r.after = r.before
  /\ Len(r.calls) > 0 =>
       (r.calls[1].before = r.before /\ r.calls[Len(r.calls)].after = r.after)
  /\ \A i \in 2..Len(r.calls) : r.calls[i].before = r.calls[i - 1].after

\* the component calls the run would have made from the same generator state
\* had its two functions been registered in the other order
Swapped(r) == InvokeAll(<<r.functions[2], r.functions[1]>>, config, r.before, month).calls

TwoInvoked(r) ==
  r.status = "ok" /\ Len(r.functions) = 2 /\ Len(r.calls) = 2 /\ Len(Swapped(r)) = 2

Draws(call) == call.after # call.before

\* a step never reseeds or rewinds the generator, and a run_simulation call
\* starts from the state the generator was in and leaves it where its last
\* component left it
GeneratorKept ==
  /\ rng'.tape = rng.tape
  /\ rng'.pos >= rng.pos
  /\ runs' # runs => (result'.before = rng /\ result'.after = rng')

\* C12 as stated: the components of a run draw one after another from the one
\* generator, and swapping the registration order of two components changes
\* the state each of them starts from.
C12_SwapChangesEveryStart ==
  /\ result.status # "none" => Threaded(result)
  /\ TwoInvoked(result) =>
       /\ Swapped(result)[2].before # result.calls[1].before
       /\ Swapped(result)[1].before # result.calls[2].before

\* C12, amended: the components of a run draw one after another from the one
\* generator, which no step reseeds or rewinds; swapping the registration
\* order of two components changes the state a component starts from exactly
\* when the other component draws from the generator.
C12_SharedGeneratorInSequence ==
  /\ [](/\ result.status # "none" => Threaded(result)
        /\ TwoInvoked(result) =>
             /\ (Swapped(result)[2].before # result.calls[1].before)
                  <=> Draws(Swapped(result)[1])
             /\ (Swapped(result)[1].before # result.calls[2].before)
                  <=> Draws(result.calls[1]))
  /\ [][GeneratorKept]_vars

\* a second run of the two components of components.py: it starts where the
\* first run ended, the second component where the first left the generator,
\* and in the other order each would have started elsewhere
C12_Witness ==
  /\ runs = 2 /\ result.before.pos > 0
  /\ TwoInvoked(result)
  /\ result.functions = <<"simulate_daily_variable_expenses", "simulate_periodic_expenses">>
  /\ result.calls[2].before = result.calls[1].after
  /\ Draws(result.calls[1]) /\ Draws(result.calls[2])
  /\ Swapped(result)[2].before # result.calls[1].before
  /\ Swapped(result)[1].before # result.calls[2].before

\* the __name__ of each function of a sequence of register calls
NamesOf(fs) == [i \in 1..Len(fs) |-> NameOf(fs[i])]

\* the function most recently registered under a name
LastNamed(fs, name) ==
  fs[CHOOSE i \in 1..Len(fs) :
       NameOf(fs[i]) = name /\ \A j \in (i + 1)..Len(fs) : NameOf(fs[j]) # name]

DistinctNames(fs) == {NameOf(fs[i]) : i \in 1..Len(fs)}

\* C13: the registry holds one entry per distinct registered function name,
\* in the order the names were first registered, each with the function most
\* recently registered under it; a run that returns has invoked as many
\* components as distinct names were registered.
C13_RegistryKeyedByName ==
  /\ \A i, j \in 1..Len(expense_functions) :
       expense_functions[i].name = expense_functions[j].name => i = j
  /\ Len(expense_functions) = Cardinality(DistinctNames(registered))
  /\ Names(expense_functions) = FirstOccurrences(NamesOf(registered))
  /\ \A i \in 1..Len(expense_functions) :
       expense_functions[i].func = LastNamed(registered, expense_functions[i].name)
  /\ result.status \in {"ok", "ValueError"} =>
       Len(result.calls) = Cardinality(DistinctNames(result.registered))

\* a name registered first, then another, then the first name again with a
\* different function: two entries, the replacement in first position, and
\* a run that invoked two components
C13_Witness ==
  /\ registered = <<"simulate_periodic_expenses", "simulate_daily_variable_expenses",
                    "legacy_periodic_expenses">>
  /\ Values(expense_functions) = <<"legacy_periodic_expenses",
                                   "simulate_daily_variable_expenses">>
  /\ result.status = "ok" /\ result.registered = registered
  /\ Len(result.calls) = 2

\* (bike_days_per_month + hitch_days_per_month) / days_in_month, as a
\* numerator over ProbDenom(config)
BikeOrHitch(c) == (c.transport.bike_days_per_month + c.transport.hitch_days_per_month) * ProbDen

\* C14: the five commute probabilities sum to exactly 1, the first four to
\* (bike_days_per_month + hitch_days_per_month) / days_in_month, and the
\* metro probability is 1 minus that, whatever hitch_two_way_frac and
\* rare_hitch_rapido_prob are.
C14_CommuteProbsSumToOne ==
  ret.op = "transport" =>
    LET p == CommuteProbs(config)
    IN  /\ SumSeq(p) = ProbDenom(config)
        /\ p[1] + p[2] + p[3] + p[4] = BikeOrHitch(config)
        /\ p[5] = ProbDenom(config) - BikeOrHitch(config)
        /\ \A f \in 0..ProbDen : \A r \in 0..ProbDen :
             CommuteProbs([config EXCEPT !.transport.hitch_two_way_frac = f,
                                         !.transport.rare_hitch_rapido_prob = r])[5] = p[5]

\* statistics were computed for a configuration with all five probabilities
\* positive or zero, a two-way fraction of a half and a rare-trip probability
\* of a quarter
C14_Witness ==
  /\ ret.op = "transport" /\ ret.status = "ok" /\ ret.stats.std # NaN
  /\ config.transport.hitch_two_way_frac = 2
  /\ config.transport.rare_hitch_rapido_prob = 1
  /\ \A i \in 1..5 : CommuteProbs(config)[i] >= 0
  /\ CommuteProbs(config)[1] > 0 /\ CommuteProbs(config)[2] > 0
  /\ CommuteProbs(config)[4] > 0 /\ CommuteProbs(config)[5] > 0

====
